---- MODULE Spec2Model ----
(***************************************************************************)
(* Moment detection and subtitle chunking of the gaming clipper:           *)
(*   MomentDetector.find_excitement_keywords / find_volume_spikes /        *)
(*   detect_best_moment (merge, selection, clip window) and                *)
(*   VideoProcessor.get_word_level_timings / group_words_into_chunks.      *)
(*                                                                         *)
(* Times are exact rationals held as integers: one second is Scale ticks.  *)
(* Inputs are drawn on grids where every division the code performs        *)
(* (/ 2 in the window resolver, / len(words) in the even split) is exact.  *)
(***************************************************************************)
EXTENDS Integers, Sequences, FiniteSets, TLC

VARIABLES
    pc,                \* position in the function under analysis
    transcription,     \* transcription['segments']
    keyword_moments,   \* find_excitement_keywords: the returned moments
    raw_rms,           \* analyze_audio_energy: rms before normalisation
    times,             \* find_volume_spikes: frame times
    rms,               \* find_volume_spikes: loudness level per frame
    spike_indices,     \* find_volume_spikes: frames above the threshold
    spike_groups,      \* find_volume_spikes: spike_groups
    volume_moments,    \* find_volume_spikes: the returned moments
    all_moments,       \* detect_best_moment: all_moments (a list of moments)
    merged_moments,    \* detect_best_moment: merged_moments
    remerged_moments,  \* the merge step run again on merged_moments
    best_moment,       \* detect_best_moment: best_moment (<<>> before step 7)
    clip,              \* detect_best_moment: the returned window (<<>> before)
    video_duration,    \* create_clip_with_subtitles: video.duration
    clip_start,        \* create_clip_with_subtitles / get_word_level_timings: clip_start
    clip_end,          \* create_clip_with_subtitles: clip_end
    word_timings,      \* the list get_word_level_timings returns
    max_words,         \* group_words_into_chunks: max_words
    max_duration,      \* group_words_into_chunks: max_duration
    subtitle_chunks    \* the list group_words_into_chunks returns

audio_vars == <<raw_rms, times, rms, spike_indices, spike_groups, volume_moments>>
merge_vars == <<all_moments, merged_moments, remerged_moments, best_moment, clip>>

text_vars == <<transcription, keyword_moments>>

video_vars == <<video_duration, clip_end>>

chunk_vars == <<clip_start, word_timings, max_words, max_duration, subtitle_chunks,
                video_vars>>

vars == <<pc, text_vars, audio_vars, merge_vars, chunk_vars>>

\* Ticks per second (60: halves, thirds, quarters and tenths are exact).
Scale == 2 * 2 * 3 * 5

\* Loudness levels are held in tenths (1.0 is LevelScale), scores in twentieths
\* (1.0 is ScoreScale), so that level * 1.5 is exact.
LevelScale == 2 * 5
ScoreScale == 2 * LevelScale

SetMax(S) == CHOOSE x \in S : \A y \in S : y <= x
SetMin(S) == CHOOSE x \in S : \A y \in S : x <= y
Max(a, b) == IF a >= b THEN a ELSE b
Min(a, b) == IF a <= b THEN a ELSE b

\* ------------------------------------------------------------------------
\* config.py
\* ------------------------------------------------------------------------
MAX_CLIP_DURATION == 60
MIN_CLIP_DURATION == 10
BUFFER_BEFORE == 3
BUFFER_AFTER == 5

\* ------------------------------------------------------------------------
\* Strings are tuples of one-character strings.
\* ------------------------------------------------------------------------
Upper == <<"A", "B", "C", "D", "E", "F", "G", "H", "I", "J", "K", "L", "M",
    "N", "O", "P", "Q", "R", "S", "T", "U", "V", "W", "X", "Y", "Z">>
LowerCase == <<"a", "b", "c", "d", "e", "f", "g", "h", "i", "j", "k", "l",
    "m", "n", "o", "p", "q", "r", "s", "t", "u", "v", "w", "x", "y", "z">>

\* str.lower() on one character.
LowerChar(c) ==
    IF \E i \in 1 .. Len(Upper) : Upper[i] = c
    THEN LowerCase[CHOOSE i \in 1 .. Len(Upper) : Upper[i] = c]
    ELSE c

Lower(text) == [i \in 1 .. Len(text) |-> LowerChar(text[i])]

\* Python's "kw in text": kw occurs at some offset of text.
Contains(text, kw) ==
    \E i \in 0 .. Len(text) - Len(kw) : SubSeq(text, i + 1, i + Len(kw)) = kw

\* ------------------------------------------------------------------------
\* find_excitement_keywords
\* ------------------------------------------------------------------------
EXCITEMENT_KEYWORDS ==
    << <<"g", "i", "l", "a">>,
       <<"w", "o", "w">>,
       <<"a", "n", "j", "i", "r">>,
       <<"m", "a", "n", "t", "a", "p">>,
       <<"k", "e", "r", "e", "n">>,
       <<"b", "a", "g", "u", "s">>,
       <<"s", "a", "v", "a", "g", "e">>,
       <<"l", "e", "g", "e", "n", "d", "a", "r", "y">>,
       <<"g", "o", "d", "l", "i", "k", "e">>,
       <<"r", "a", "m", "p", "a", "g", "e">>,
       <<"m", "o", "n", "s", "t", "e", "r", " ", "k", "i", "l", "l">>,
       <<"d", "o", "u", "b", "l", "e", " ", "k", "i", "l", "l">>,
       <<"t", "r", "i", "p", "l", "e", " ", "k", "i", "l", "l">>,
       <<"u", "l", "t", "r", "a", " ", "k", "i", "l", "l">>,
       <<"m", "e", "g", "a", " ", "k", "i", "l", "l">>,
       <<"k", "i", "l", "l", "i", "n", "g", " ", "s", "p", "r", "e", "e">>,
       <<"u", "n", "s", "t", "o", "p", "p", "a", "b", "l", "e">>,
       <<"w", "i", "p", "e", "o", "u", "t">>,
       <<"a", "c", "e">>,
       <<"h", "e", "a", "d", "s", "h", "o", "t">>,
       <<"k", "i", "l", "l">>,
       <<"n", "i", "c", "e">>,
       <<"g", "g">>,
       <<"y", "e", "s">>,
       <<"y", "e", "a", "h">> >>

\* [kw for kw in config.EXCITEMENT_KEYWORDS if kw in text], in list order.
RECURSIVE FoundFrom(_, _)
FoundFrom(text, k) ==
    IF k > Len(EXCITEMENT_KEYWORDS) THEN <<>>
    ELSE IF Contains(text, EXCITEMENT_KEYWORDS[k])
         THEN <<EXCITEMENT_KEYWORDS[k]>> \o FoundFrom(text, k + 1)
         ELSE FoundFrom(text, k + 1)

\* The keyword list with one entry per occurrence instead of one per keyword.
RECURSIVE OccurrencesFrom(_, _, _)
OccurrencesFrom(text, k, i) ==
    IF k > Len(EXCITEMENT_KEYWORDS) THEN <<>>
    ELSE IF i > Len(text) - Len(EXCITEMENT_KEYWORDS[k])
         THEN OccurrencesFrom(text, k + 1, 0)
    ELSE IF SubSeq(text, i + 1, i + Len(EXCITEMENT_KEYWORDS[k])) = EXCITEMENT_KEYWORDS[k]
         THEN <<EXCITEMENT_KEYWORDS[k]>> \o OccurrencesFrom(text, k, i + 1)
         ELSE OccurrencesFrom(text, k, i + 1)

FoundKeywordOccurrences(text) == OccurrencesFrom(text, 1, 0)

FoundKeywords(text) == FoundFrom(text, 1)

\* The moment appended for a segment with found_keywords non-empty.
KeywordMomentOf(segment, found_keywords) ==
    [start |-> segment.start, end |-> segment.end, text |-> segment.text,
     keywords |-> found_keywords,
     score |-> Len(found_keywords) * 2 * ScoreScale]

RECURSIVE ExcitementMoments(_)
ExcitementMoments(segments) ==
    IF segments = <<>> THEN <<>>
    ELSE LET segment == Head(segments)
             found_keywords == FoundKeywords(Lower(segment.text))
         IN  IF found_keywords # <<>>
             THEN <<KeywordMomentOf(segment, found_keywords)>>
                      \o ExcitementMoments(Tail(segments))
             ELSE ExcitementMoments(Tail(segments))

\* ------------------------------------------------------------------------
\* detect_best_moment, step 8: buffer, max-duration and min-duration branches
\* ------------------------------------------------------------------------
\* The buffered window of lines 337-341. duration is computed once, before
\* either branch, and is not recomputed between them.
BufferedStart(m) == Max(0, m.start - BUFFER_BEFORE * Scale)
BufferedEnd(m) == m.end + BUFFER_AFTER * Scale
BufferedDuration(m) == BufferedEnd(m) - BufferedStart(m)

\* The window with the min-duration branch moving the start by needed / 2
\* without max(0, .).
ClipWindowNoClamp(m) ==
    LET duration == BufferedDuration(m)
        middle == (m.start + m.end) \div 2
        s1 == IF duration > MAX_CLIP_DURATION * Scale
              THEN Max(0, middle - (MAX_CLIP_DURATION * Scale) \div 2)
              ELSE BufferedStart(m)
        e1 == IF duration > MAX_CLIP_DURATION * Scale
              THEN s1 + MAX_CLIP_DURATION * Scale
              ELSE BufferedEnd(m)
        needed == MIN_CLIP_DURATION * Scale - duration
        s2 == IF duration < MIN_CLIP_DURATION * Scale
              THEN s1 - needed \div 2
              ELSE s1
        e2 == IF duration < MIN_CLIP_DURATION * Scale
              THEN e1 + needed \div 2
              ELSE e1
    IN  [start |-> s2, end |-> e2, duration |-> e2 - s2,
         score |-> m.score, type |-> m.type, details |-> m.details]

\* The window with the max-duration branch cutting the buffered window after
\* MAX_CLIP_DURATION instead of re-centering it.
ClipWindowTruncated(m) ==
    LET duration == BufferedDuration(m)
        s1 == BufferedStart(m)
        e1 == IF duration > MAX_CLIP_DURATION * Scale
              THEN s1 + MAX_CLIP_DURATION * Scale
              ELSE BufferedEnd(m)
        needed == MIN_CLIP_DURATION * Scale - duration
        s2 == IF duration < MIN_CLIP_DURATION * Scale
              THEN Max(0, s1 - needed \div 2)
              ELSE s1
        e2 == IF duration < MIN_CLIP_DURATION * Scale
              THEN e1 + needed \div 2
              ELSE e1
    IN  [start |-> s2, end |-> e2, duration |-> e2 - s2,
         score |-> m.score, type |-> m.type, details |-> m.details]

ClipWindow(m) ==
    LET duration == BufferedDuration(m)
        middle == (m.start + m.end) \div 2
        s1 == IF duration > MAX_CLIP_DURATION * Scale
              THEN Max(0, middle - (MAX_CLIP_DURATION * Scale) \div 2)
              ELSE BufferedStart(m)
        e1 == IF duration > MAX_CLIP_DURATION * Scale
              THEN s1 + MAX_CLIP_DURATION * Scale
              ELSE BufferedEnd(m)
        needed == MIN_CLIP_DURATION * Scale - duration
        s2 == IF duration < MIN_CLIP_DURATION * Scale
              THEN Max(0, s1 - needed \div 2)
              ELSE s1
        e2 == IF duration < MIN_CLIP_DURATION * Scale
              THEN e1 + needed \div 2
              ELSE e1
    IN  [start |-> s2, end |-> e2, duration |-> e2 - s2,
         score |-> m.score, type |-> m.type, details |-> m.details]

\* ------------------------------------------------------------------------
\* detect_best_moment, step 6: sort by start, fold with the 2-second gap
\* ------------------------------------------------------------------------
\* A moment is [start, end, score, type, text, details]. type is the list of
\* tags joined by "+", details the list of detail strings joined by " | ",
\* text a string (a tuple of characters).
Separator == <<" ", "|", " ">>

\* list.sort(key=start): stable, so equal starts keep their input order.
RECURSIVE InsertByStart(_, _)
InsertByStart(m, sorted) ==
    IF sorted = <<>> THEN <<m>>
    ELSE IF sorted[Len(sorted)].start <= m.start THEN Append(sorted, m)
    ELSE Append(InsertByStart(m, SubSeq(sorted, 1, Len(sorted) - 1)),
                sorted[Len(sorted)])

RECURSIVE SortFrom(_, _)
SortFrom(moments, sorted) ==
    IF moments = <<>> THEN sorted
    ELSE SortFrom(Tail(moments), InsertByStart(Head(moments), sorted))

SortByStart(moments) == SortFrom(moments, <<>>)

\* "Within 2 seconds": the merge test of the fold.
GRACE_GAP == 2

\* The merge test with < in place of <=.
CloseEnoughStrict(current, moment) ==
    moment.start < current.end + GRACE_GAP * Scale

CloseEnough(current, moment) ==
    moment.start <= current.end + GRACE_GAP * Scale

\* The merge branch without current['score'] += moment['score'].
AbsorbKeepScore(current, moment) ==
    [current EXCEPT
        !.end = Max(current.end, moment.end),
        !.type = current.type \o <<"+">> \o moment.type,
        !.text = IF moment.text # <<>>
                 THEN current.text \o Separator \o moment.text
                 ELSE current.text,
        !.details = IF moment.details # <<>>
                    THEN current.details \o <<" | ">> \o moment.details
                    ELSE current.details]

\* The merge branch with current['end'] = moment['end'] in place of the max.
AbsorbLastEnd(current, moment) ==
    [current EXCEPT
        !.end = moment.end,
        !.score = current.score + moment.score,
        !.type = current.type \o <<"+">> \o moment.type,
        !.text = IF moment.text # <<>>
                 THEN current.text \o Separator \o moment.text
                 ELSE current.text,
        !.details = IF moment.details # <<>>
                    THEN current.details \o <<" | ">> \o moment.details
                    ELSE current.details]

\* The merge branch: the accumulator absorbs moment.
Absorb(current, moment) ==
    [current EXCEPT
        !.end = Max(current.end, moment.end),
        !.score = current.score + moment.score,
        !.type = current.type \o <<"+">> \o moment.type,
        !.text = IF moment.text # <<>>
                 THEN current.text \o Separator \o moment.text
                 ELSE current.text,
        !.details = IF moment.details # <<>>
                    THEN current.details \o <<" | ">> \o moment.details
                    ELSE current.details]

\* The fold with merged_moments.append(moment) in place of append(current).
RECURSIVE MergeFoldAppendNext(_, _, _)
MergeFoldAppendNext(current, rest, merged) ==
    IF rest = <<>> THEN Append(merged, current)
    ELSE IF CloseEnough(current, Head(rest))
         THEN MergeFoldAppendNext(Absorb(current, Head(rest)), Tail(rest), merged)
         ELSE MergeFoldAppendNext(Head(rest), Tail(rest), Append(merged, Head(rest)))

\* The for loop over all_moments[1:] and the final append.
RECURSIVE MergeFold(_, _, _)
MergeFold(current, rest, merged) ==
    IF rest = <<>> THEN Append(merged, current)
    ELSE IF CloseEnough(current, Head(rest))
         THEN MergeFold(Absorb(current, Head(rest)), Tail(rest), merged)
         ELSE MergeFold(Head(rest), Tail(rest), Append(merged, current))

\* Lines 305-323 on a non-empty list that line 302 has sorted.
MergeSorted(sorted) == MergeFold(Head(sorted), Tail(sorted), <<>>)

\* The selection returning the last of several maxima.
RECURSIVE MaxByScoreLast(_, _)
MaxByScoreLast(best, rest) ==
    IF rest = <<>> THEN best
    ELSE IF Head(rest).score >= best.score THEN MaxByScoreLast(Head(rest), Tail(rest))
    ELSE MaxByScoreLast(best, Tail(rest))

\* Step 7: max(merged_moments, key=score) returns the first maximum.
RECURSIVE MaxByScore(_, _)
MaxByScore(best, rest) ==
    IF rest = <<>> THEN best
    ELSE IF Head(rest).score > best.score THEN MaxByScore(Head(rest), Tail(rest))
    ELSE MaxByScore(best, Tail(rest))

BestOf(moments) == MaxByScore(Head(moments), Tail(moments))

\* ------------------------------------------------------------------------
\* find_volume_spikes
\* ------------------------------------------------------------------------
\* config.VOLUME_SPIKE_MULTIPLIER = 1.5, held as 3 / 2.
VOLUME_SPIKE_MULTIPLIER_X2 == 3
\* "Within 10 frames" and the 5 frames added on each side of a group.
SPIKE_GAP == 10
SPIKE_PAD == 5

RECURSIVE SeqSum(_)
SeqSum(s) == IF s = <<>> THEN 0 ELSE Head(s) + SeqSum(Tail(s))

SeqSumSquares(s) == SeqSum([i \in 1 .. Len(s) |-> s[i] * s[i]])

\* level > mean + std * 1.5 with mean = S/n and std = sqrt(n*Q - S*S)/n
\* (np.std is the population deviation; S the sum and Q the sum of squares of
\* the n levels): n*level - S > 1.5 * sqrt(n*Q - S*S), decided exactly by
\* squaring, the right-hand side being non-negative.
\* The comparison with >= in place of >.
AboveOrAtThreshold(level, n, S, Q) ==
    LET d == n * level - S
    IN  /\ d >= 0
        /\ 4 * d * d >= VOLUME_SPIKE_MULTIPLIER_X2 * VOLUME_SPIKE_MULTIPLIER_X2
                             * (n * Q - S * S)

\* rms > threshold.
AboveThreshold(level, n, S, Q) ==
    LET d == n * level - S
    IN  /\ d > 0
        /\ 4 * d * d > VOLUME_SPIKE_MULTIPLIER_X2 * VOLUME_SPIKE_MULTIPLIER_X2
                            * (n * Q - S * S)

\* The value of 0.0 / 0.0 in numpy (a warning, not an exception): not a
\* number. Levels are never negative, so the marker is told apart from them.
NaN == -1
IsNaN(level) == level = NaN

\* Line 168, one element: rms / np.max(rms). The maximum of non-negative
\* levels is 0 only when every level is 0, so the only division by zero is
\* 0 / 0.
Divide(level, max_rms) ==
    IF max_rms = 0 THEN NaN ELSE (level * LevelScale) \div max_rms

\* Line 168: rms_normalized = rms / np.max(rms).
Normalize(levels) ==
    LET max_rms == SetMax({ levels[i] : i \in 1 .. Len(levels) })
    IN  [i \in 1 .. Len(levels) |-> Divide(levels[i], max_rms)]

\* np.where(rms > threshold)[0]: the 0-based frame indices, ascending. One
\* NaN level makes mean, std and threshold NaN, and every comparison with
\* NaN is false.
SpikeIndices(levels) ==
    LET n == Len(levels)
        S == SeqSum(levels)
        Q == SeqSumSquares(levels)
        RECURSIVE From(_)
        From(i) ==
            IF i >= n THEN <<>>
            ELSE IF AboveThreshold(levels[i + 1], n, S, Q)
                 THEN <<i>> \o From(i + 1)
                 ELSE From(i + 1)
    IN  IF \E i \in 1 .. n : IsNaN(levels[i]) THEN <<>> ELSE From(0)

\* The grouping test with < in place of <=.
SameSpikeStrict(prev, next) == next - prev < SPIKE_GAP

\* Line 215: "Within 10 frames".
SameSpike(prev, next) == next - prev <= SPIKE_GAP

\* Lines 211-223: the grouping loop and the final append.
RECURSIVE GroupFrom(_, _, _, _)
GroupFrom(indices, i, current_group, groups) ==
    IF i > Len(indices) THEN Append(groups, current_group)
    ELSE IF SameSpike(indices[i - 1], indices[i])
         THEN GroupFrom(indices, i + 1, Append(current_group, indices[i]), groups)
         ELSE GroupFrom(indices, i + 1, <<indices[i]>>, Append(groups, current_group))

SpikeGroups(indices) ==
    IF indices = <<>> THEN <<>> ELSE GroupFrom(indices, 2, <<indices[1]>>, <<>>)

\* Lines 226-240: one moment per group.
GroupMoment(group, ts, levels) ==
    LET start_idx == Max(0, group[1] - SPIKE_PAD)
        end_idx == Min(Len(ts) - 1, group[Len(group)] + SPIKE_PAD)
        peak_rms == SetMax({ levels[group[j] + 1] : j \in 1 .. Len(group) })
    IN  [start |-> ts[start_idx + 1], end |-> ts[end_idx + 1],
         peak_volume |-> peak_rms, score |-> 3 * peak_rms]

VolumeMoments(ts, levels) ==
    LET groups == SpikeGroups(SpikeIndices(levels))
    IN  [j \in 1 .. Len(groups) |-> GroupMoment(groups[j], ts, levels)]

\* librosa.frames_to_time: frame * hop_length / sr seconds, in ticks.
hop_length == 512
frames_to_time(frame, sr) == (frame * hop_length * Scale) \div sr

\* ------------------------------------------------------------------------
\* get_word_level_timings
\* ------------------------------------------------------------------------
Whitespace == {" ", "\t", "\n"}

RECURSIVE LStrip(_)
LStrip(text) ==
    IF text # <<>> /\ Head(text) \in Whitespace THEN LStrip(Tail(text)) ELSE text

RECURSIVE RStrip(_)
RStrip(text) ==
    IF text # <<>> /\ text[Len(text)] \in Whitespace
    THEN RStrip(SubSeq(text, 1, Len(text) - 1))
    ELSE text

\* str.strip()
Strip(text) == RStrip(LStrip(text))

\* str.split(): the maximal runs of non-whitespace characters.
RECURSIVE SplitFrom(_, _, _)
SplitFrom(text, word, words) ==
    IF text = <<>> THEN (IF word = <<>> THEN words ELSE Append(words, word))
    ELSE IF Head(text) \in Whitespace
         THEN SplitFrom(Tail(text), <<>>,
                        IF word = <<>> THEN words ELSE Append(words, word))
         ELSE SplitFrom(Tail(text), Append(word, Head(text)), words)

Split(text) == SplitFrom(text, <<>>, <<>>)

\* The join with nothing between the words.
RECURSIVE JoinTight(_)
JoinTight(words) ==
    IF words = <<>> THEN <<>> ELSE words[1] \o JoinTight(Tail(words))

\* ' '.join(words)
RECURSIVE Join(_)
Join(words) ==
    IF words = <<>> THEN <<>>
    ELSE IF Len(words) = 1 THEN words[1]
    ELSE words[1] \o <<" ">> \o Join(Tail(words))

\* The explicit timings keeping every word that ends inside the clip.
RECURSIVE ExplicitTimingsByEnd(_, _)
ExplicitTimingsByEnd(words, start) ==
    IF words = <<>> THEN <<>>
    ELSE LET word_info == Head(words)
             word_text == Strip(word_info.word)
             adjusted_start == word_info.start - start
             adjusted_end == word_info.end - start
         IN  IF word_text # <<>> /\ adjusted_end >= 0
             THEN <<[start |-> adjusted_start, end |-> adjusted_end,
                     text |-> word_text]>> \o ExplicitTimingsByEnd(Tail(words), start)
             ELSE ExplicitTimingsByEnd(Tail(words), start)

\* Lines 185-200: the words of a segment that carries word timings. A word
\* info holds the keys start, end and word, as the transcriber writes them.
RECURSIVE ExplicitTimings(_, _)
ExplicitTimings(words, start) ==
    IF words = <<>> THEN <<>>
    ELSE LET word_info == Head(words)
             word_text == Strip(word_info.word)
             adjusted_start == word_info.start - start
             adjusted_end == word_info.end - start
         IN  IF word_text # <<>> /\ adjusted_start >= 0
             THEN <<[start |-> adjusted_start, end |-> adjusted_end,
                     text |-> word_text]>> \o ExplicitTimings(Tail(words), start)
             ELSE ExplicitTimings(Tail(words), start)

\* Lines 203-221: the segment's span split evenly over its words.
RECURSIVE EvenTimings(_, _, _, _, _)
EvenTimings(words, i, seg_start, time_per_word, start) ==
    IF i >= Len(words) THEN <<>>
    ELSE LET word_start == seg_start + i * time_per_word
             word_end == word_start + time_per_word
             adjusted_start == word_start - start
             adjusted_end == word_end - start
         IN  IF adjusted_start >= 0
             THEN <<[start |-> adjusted_start, end |-> adjusted_end,
                     text |-> words[i + 1]]>>
                      \o EvenTimings(words, i + 1, seg_start, time_per_word, start)
             ELSE EvenTimings(words, i + 1, seg_start, time_per_word, start)

SegmentTimings(segment, start) ==
    IF segment.words # <<>>
    THEN ExplicitTimings(segment.words, start)
    ELSE LET words == Split(Strip(segment.text))
         IN  IF words # <<>>
             THEN EvenTimings(words, 0, segment.start,
                              (segment.end - segment.start) \div Len(words), start)
             ELSE <<>>

RECURSIVE WordLevelTimings(_, _)
WordLevelTimings(segments, start) ==
    IF segments = <<>> THEN <<>>
    ELSE SegmentTimings(Head(segments), start)
             \o WordLevelTimings(Tail(segments), start)

\* ------------------------------------------------------------------------
\* group_words_into_chunks
\* ------------------------------------------------------------------------
\* The defaults max_words=3 and max_duration=2.5 (held as 5 / 2).
DEFAULT_MAX_WORDS == 3
DEFAULT_MAX_DURATION_X2 == 5
DefaultMaxDuration == (DEFAULT_MAX_DURATION_X2 * Scale) \div 2

\* A chunk as appended to chunks; words is the current_chunk list that text
\* joins.
Chunk(chunk_start, chunk_end, current_chunk) ==
    [start |-> chunk_start, end |-> chunk_end, text |-> Join(current_chunk),
     words |-> current_chunk]

\* The test of line 247 with <= in place of <.
FitsInclusive(current_chunk, chunk_start, word_info, maxw, maxd) ==
    /\ Len(current_chunk) <= maxw
    /\ word_info.end - chunk_start <= maxd

\* Lines 245-248: the word joins the open chunk.
Fits(current_chunk, chunk_start, word_info, maxw, maxd) ==
    /\ Len(current_chunk) < maxw
    /\ word_info.end - chunk_start < maxd

\* Lines 237-269: the loop and the last chunk.
RECURSIVE ChunkFold(_, _, _, _, _, _, _)
ChunkFold(words, current_chunk, chunk_start, chunk_end, chunks, maxw, maxd) ==
    IF words = <<>>
    THEN (IF current_chunk # <<>>
          THEN Append(chunks, Chunk(chunk_start, chunk_end, current_chunk))
          ELSE chunks)
    ELSE LET word_info == Head(words)
         IN  IF current_chunk = <<>>
             THEN ChunkFold(Tail(words), <<word_info.text>>, word_info.start,
                            word_info.end, chunks, maxw, maxd)
             ELSE IF Fits(current_chunk, chunk_start, word_info, maxw, maxd)
             THEN ChunkFold(Tail(words), Append(current_chunk, word_info.text),
                            chunk_start, word_info.end, chunks, maxw, maxd)
             ELSE ChunkFold(Tail(words), <<word_info.text>>, word_info.start,
                            word_info.end,
                            Append(chunks, Chunk(chunk_start, chunk_end, current_chunk)),
                            maxw, maxd)

GroupWords(words, maxw, maxd) ==
    IF words = <<>> THEN <<>> ELSE ChunkFold(words, <<>>, 0, 0, <<>>, maxw, maxd)

\* ------------------------------------------------------------------------
\* Spike specification: find_volume_spikes on every curve of CurveLengths
\* frames that is flat at a base level except for up to MaxLoud louder frames.
\* ------------------------------------------------------------------------
MaxFrames == 22
MaxLoud == 3

CurveLengths == {1, 2, MaxFrames}
BaseLevels == {0, 2}
LoudLevels == {5, 10}
SampleRates == {3072}

RECURSIVE UpTo(_, _)
\* The subsets of S with at most k elements.
UpTo(S, k) ==
    IF k = 0 THEN {{}}
    ELSE LET smaller == UpTo(S, k - 1)
         IN  smaller \cup { p \cup {x} : p \in smaller, x \in S }

Curves(n) ==
    { [i \in 1 .. n |-> IF i \in DOMAIN loud THEN loud[i] ELSE base] :
        base \in BaseLevels,
        loud \in UNION { [P -> LoudLevels] : P \in UpTo(1 .. n, MaxLoud) } }

NoText ==
    /\ transcription = <<>>
    /\ keyword_moments = <<>>

NoChunks ==
    /\ clip_start = 0
    /\ word_timings = <<>>
    /\ max_words = DEFAULT_MAX_WORDS
    /\ max_duration = DefaultMaxDuration
    /\ subtitle_chunks = <<>>

NoVideo ==
    /\ video_duration = 0
    /\ clip_end = 0

NoAudio ==
    /\ raw_rms = <<>>
    /\ times = <<>>
    /\ rms = <<>>
    /\ spike_indices = <<>>
    /\ spike_groups = <<>>
    /\ volume_moments = <<>>

NoMerge ==
    /\ all_moments = <<>>
    /\ merged_moments = <<>>
    /\ remerged_moments = <<>>
    /\ best_moment = <<>>
    /\ clip = <<>>

InitSpikes ==
    /\ pc = "spikes"
    /\ \E n \in CurveLengths, sr \in SampleRates :
          /\ rms \in Curves(n)
          /\ times = [i \in 1 .. n |-> frames_to_time(i - 1, sr)]
    /\ raw_rms = <<>>
    /\ spike_indices = <<>>
    /\ spike_groups = <<>>
    /\ volume_moments = <<>>
    /\ NoText
    /\ NoMerge
    /\ NoChunks
    /\ NoVideo

FindVolumeSpikes ==
    /\ pc = "spikes"
    /\ spike_indices' = SpikeIndices(rms)
    /\ spike_groups' = SpikeGroups(spike_indices')
    /\ volume_moments' = VolumeMoments(times, rms)
    /\ pc' = "done"
    /\ UNCHANGED <<raw_rms, times, rms>>
    /\ UNCHANGED <<text_vars, merge_vars, chunk_vars>>

NextSpikes == FindVolumeSpikes

SpecSpikes == InitSpikes /\ [][NextSpikes]_vars

\* ------------------------------------------------------------------------
\* Energy specification: analyze_audio_energy on every raw curve of at most
\* MaxRawFrames frames with levels of RawLevels (silence included), followed
\* by find_volume_spikes on the curve it returns.
\* ------------------------------------------------------------------------
MaxRawFrames == 4
RawLevels == {0, 1, 2, 5, 10}

RawCurves == UNION { [1 .. n -> RawLevels] : n \in 1 .. MaxRawFrames }

InitEnergy ==
    /\ pc = "energy"
    /\ raw_rms \in RawCurves
    /\ times = <<>>
    /\ rms = <<>>
    /\ spike_indices = <<>>
    /\ spike_groups = <<>>
    /\ volume_moments = <<>>
    /\ NoText
    /\ NoMerge
    /\ NoChunks
    /\ NoVideo

\* Lines 155-170, from the rms curve on.
AnalyzeAudioEnergy ==
    /\ pc = "energy"
    /\ \E sr \in SampleRates :
          times' = [i \in 1 .. Len(raw_rms) |-> frames_to_time(i - 1, sr)]
    /\ rms' = Normalize(raw_rms)
    /\ pc' = "spikes"
    /\ UNCHANGED <<raw_rms, spike_indices, spike_groups, volume_moments>>
    /\ UNCHANGED <<text_vars, merge_vars, chunk_vars>>

NextEnergy == AnalyzeAudioEnergy \/ FindVolumeSpikes

SpecEnergy == InitEnergy /\ [][NextEnergy]_vars

\* ------------------------------------------------------------------------
\* detect_best_moment, step 5, and its caller handle_video
\* ------------------------------------------------------------------------
\* ', '.join(keywords)
RECURSIVE JoinComma(_)
JoinComma(keywords) ==
    IF keywords = <<>> THEN <<>>
    ELSE IF Len(keywords) = 1 THEN keywords[1]
    ELSE keywords[1] \o <<",", " ">> \o JoinComma(Tail(keywords))

\* Lines 275-283: the moment appended for a keyword moment.
FromKeyword(km) ==
    [start |-> km.start, end |-> km.end, score |-> km.score,
     type |-> <<"keyword">>,
     details |-> << <<"Keywords: ">> \o JoinComma(km.keywords) >>,
     text |-> km.text]

\* Lines 286-294: the moment appended for a volume moment. The detail string
\* shows the peak to two decimals, which a level in tenths has.
FromVolume(vm) ==
    [start |-> vm.start, end |-> vm.end, score |-> vm.score,
     type |-> <<"volume_spike">>,
     details |-> << <<"Peak volume: ", vm.peak_volume>> >>,
     text |-> <<>>]

\* Lines 272-294: keyword moments first, then volume moments.
Combine(kms, vms) ==
    [i \in 1 .. Len(kms) |-> FromKeyword(kms[i])]
        \o [i \in 1 .. Len(vms) |-> FromVolume(vms[i])]

\* A ten-second window from time 0 returned where there is no moment.
FallbackWindow ==
    <<[start |-> 0, end |-> MIN_CLIP_DURATION * Scale,
       duration |-> MIN_CLIP_DURATION * Scale, score |-> 0,
       type |-> <<>>, details |-> <<>>]>>

\* Line 299: return None. An optional value is a tuple of length 0 or 1.
AbsentResult == <<>>

\* The frames of every group, in order.
RECURSIVE Flatten(_)
Flatten(groups) ==
    IF groups = <<>> THEN <<>> ELSE Head(groups) \o Flatten(Tail(groups))

\* The groups that hold frame index f.
GroupsOf(f) ==
    { g \in 1 .. Len(spike_groups) :
        \E j \in 1 .. Len(spike_groups[g]) : spike_groups[g][j] = f }

\* C7: consecutive above-threshold frames share a group iff their indices
\* differ by at most 10 (10 keeps the group, 11 starts a new one), and every
\* above-threshold frame is in exactly one group.
C7_SpikeGapLaw ==
    pc = "done" =>
        /\ \A j \in 1 .. Len(spike_indices) - 1 :
              (GroupsOf(spike_indices[j]) = GroupsOf(spike_indices[j + 1]))
                  <=> (spike_indices[j + 1] - spike_indices[j] <= 10)
        /\ \A j \in 1 .. Len(spike_indices) :
              Cardinality(GroupsOf(spike_indices[j])) = 1
        /\ Flatten(spike_groups) = spike_indices
        /\ Len(volume_moments) = Len(spike_groups)

\* Three spikes: the second 10 frames after the first (same group), the third
\* 11 frames after the second (a new group).
C7_Witness ==
    /\ pc = "done"
    /\ Len(spike_indices) = 3
    /\ spike_indices[2] - spike_indices[1] = 10
    /\ spike_indices[3] - spike_indices[2] = 11
    /\ spike_groups = << <<spike_indices[1], spike_indices[2]>>, <<spike_indices[3]>> >>

\* The levels of the curve are all equal.
Flat(levels) == \A i \in 1 .. Len(levels) : levels[i] = levels[1]

\* C8: a curve whose levels are all equal (silence, or constant 0.2, which is
\* level 2) gives no spike and an empty list of moments.
C8_FlatCurveNoSpikes ==
    (pc = "done" /\ Flat(rms)) =>
        /\ spike_indices = <<>>
        /\ volume_moments = <<>>

\* The constant curve at 0.2 over MaxFrames frames, processed.
C8_Witness ==
    /\ pc = "done"
    /\ Len(rms) = MaxFrames
    /\ \A i \in 1 .. Len(rms) : rms[i] = 2
    /\ volume_moments = <<>>

\* ------------------------------------------------------------------------
\* Keyword specification: find_excitement_keywords on a transcript of one
\* segment whose text is any concatenation of up to MaxTokens tokens, or of
\* up to MaxSegments segments with one of ShortTexts each.
\* ------------------------------------------------------------------------
MaxTokens == 3
MaxSegments == 2

TextTokens ==
    { <<"w", "o", "w">>, <<"W", "o", "W">>, <<" ", "s", "a", "v", "a", "g", "e">>,
      <<" ", "k", "i", "l", "l">>, <<"d", "o", "u", "b", "l", "e">>,
      <<" ">>, <<"a">>, <<"c", "e">> }

RECURSIVE TokenTexts(_)
\* The concatenations of at most k tokens.
TokenTexts(k) ==
    IF k = 0 THEN {<<>>}
    ELSE LET shorter == TokenTexts(k - 1)
         IN  shorter \cup { t \o tok : t \in shorter, tok \in TextTokens }

ShortTexts ==
    { <<"w", "o", "w">>, <<"o", "k">>, <<"G", "G", " ", "w", "o", "w">> }

\* Segment spans in seconds.
SegmentSpans == { <<5, 7>>, <<0, 1>>, <<8, 8>> }

Segment(span, text) ==
    [start |-> span[1] * Scale, end |-> span[2] * Scale, text |-> text,
     words |-> <<>>]

KeywordTranscripts ==
    { <<Segment(span, text)>> : span \in SegmentSpans, text \in TokenTexts(MaxTokens) }
        \cup UNION { [1 .. n -> { Segment(span, text) :
                                    span \in SegmentSpans, text \in ShortTexts }] :
                       n \in 0 .. MaxSegments }

InitKeywords ==
    /\ pc = "keywords"
    /\ transcription \in KeywordTranscripts
    /\ keyword_moments = <<>>
    /\ NoAudio
    /\ NoMerge
    /\ NoChunks
    /\ NoVideo

FindExcitementKeywords ==
    /\ pc = "keywords"
    /\ keyword_moments' = ExcitementMoments(transcription)
    /\ pc' = "done"
    /\ UNCHANGED transcription
    /\ UNCHANGED <<audio_vars, merge_vars, chunk_vars>>

NextKeywords == FindExcitementKeywords

SpecKeywords == InitKeywords /\ [][NextKeywords]_vars

\* The configured keywords, as a set.
KeywordSet == { EXCITEMENT_KEYWORDS[k] : k \in 1 .. Len(EXCITEMENT_KEYWORDS) }

\* kw occurs in the lower-cased text: at some offset every character agrees.
OccursIn(kw, text) ==
    \E off \in 0 .. Len(text) - Len(kw) :
        \A j \in 1 .. Len(kw) : LowerChar(text[off + j]) = kw[j]

Matched(segment) == { kw \in KeywordSet : OccursIn(kw, segment.text) }

\* The positions of the segments with at least one keyword, ascending.
RECURSIVE MatchingFrom(_)
MatchingFrom(i) ==
    IF i > Len(transcription) THEN <<>>
    ELSE IF Matched(transcription[i]) # {}
         THEN <<i>> \o MatchingFrom(i + 1)
         ELSE MatchingFrom(i + 1)

WowSavageKill ==
    <<"w", "o", "w", " ", "s", "a", "v", "a", "g", "e", " ", "k", "i", "l", "l">>

\* C9: exactly one moment per segment whose lower-cased text contains a
\* configured keyword, none for the others; the moment spans the segment and
\* scores 2 per distinct keyword found, however often it occurs; segment
\* [5,7] "wow savage kill" scores 6.
C9_KeywordMoments ==
    pc = "done" =>
        LET matching == MatchingFrom(1)
        IN  /\ Len(keyword_moments) = Len(matching)
            /\ \A k \in 1 .. Len(matching) :
                  LET segment == transcription[matching[k]]
                  IN  /\ keyword_moments[k].start = segment.start
                      /\ keyword_moments[k].end = segment.end
                      /\ keyword_moments[k].score =
                            2 * Cardinality(Matched(segment)) * ScoreScale
            /\ transcription = <<Segment(<<5, 7>>, WowSavageKill)>>
                  => /\ Len(keyword_moments) = 1
                     /\ keyword_moments[1].score = 6 * ScoreScale
                     /\ keyword_moments[1].start = 5 * Scale
                     /\ keyword_moments[1].end = 7 * Scale

\* A segment in which one keyword occurs twice (and in mixed case) and
\* scores once.
C9_Witness ==
    /\ pc = "done"
    /\ Len(transcription) = 1
    /\ transcription[1].text = <<"w", "o", "w", "W", "o", "W">>
    /\ Len(keyword_moments) = 1
    /\ keyword_moments[1].score = 2 * ScoreScale

\* ------------------------------------------------------------------------
\* Subtitle specification: get_word_level_timings, then
\* group_words_into_chunks with its defaults, as create_clip_with_subtitles
\* calls them. The transcript is one segment with up to MaxSegWords word
\* timings (ordered by start, end >= start, zero-length words included), one
\* segment without word timings, or up to MaxSegments segments of PlainSegments.
\* ------------------------------------------------------------------------
MaxSegWords == 3

Gila == <<"g", "i", "l", "a">>

WordInfo(s, e, word) == [start |-> s * Scale, end |-> e * Scale, word |-> word]

WordInfos ==
    { WordInfo(s, s + d, <<" ">> \o Gila) : s \in {0, 1, 2}, d \in {0, 1, 3} }
        \cup { WordInfo(1, 2, <<" ">>) }

RECURSIVE OrderedWords(_)
\* The lists of at most k word infos with non-decreasing starts.
OrderedWords(k) ==
    IF k = 0 THEN {<<>>}
    ELSE LET shorter == OrderedWords(k - 1)
         IN  shorter \cup UNION {
                 { Append(ws, w) :
                     w \in { x \in WordInfos :
                                ws = <<>> \/ ws[Len(ws)].start <= x.start } } :
                 ws \in shorter }

SubtitleTexts ==
    { <<>>, Gila, <<" ">> \o Gila \o <<" ", " ">> \o Gila \o <<" ">>,
      <<"a", " ", "b", " ", "c">> }

PlainSegments ==
    { Segment(span, text) :
        span \in { <<0, 0>>, <<0, 3>>, <<3, 6>>, <<6, 12>> },
        text \in SubtitleTexts }

SubtitleTranscripts ==
    { <<[start |-> 0, end |-> 6 * Scale, text |-> Gila, words |-> ws]>> :
        ws \in OrderedWords(MaxSegWords) \ {<<>>} }
        \cup UNION { [1 .. n -> PlainSegments] : n \in 0 .. MaxSegments }
        \cup { <<[start |-> 0, end |-> 3 * Scale, text |-> Gila, words |-> ws], seg>> :
                 ws \in OrderedWords(MaxSegWords - 1) \ {<<>>},
                 seg \in { p \in PlainSegments : p.start = 3 * Scale } }

ClipStarts == { 0, Scale, (3 * Scale) \div 2 }

InitSubtitles ==
    /\ pc = "timings"
    /\ transcription \in SubtitleTranscripts
    /\ keyword_moments = <<>>
    /\ clip_start \in ClipStarts
    /\ NoVideo
    /\ word_timings = <<>>
    /\ max_words = DEFAULT_MAX_WORDS
    /\ max_duration = DefaultMaxDuration
    /\ subtitle_chunks = <<>>
    /\ NoAudio
    /\ NoMerge

GetWordLevelTimings ==
    /\ pc = "timings"
    /\ word_timings' = WordLevelTimings(transcription, clip_start)
    /\ pc' = "group"
    /\ UNCHANGED <<clip_start, max_words, max_duration, subtitle_chunks, video_vars>>
    /\ UNCHANGED <<text_vars, audio_vars, merge_vars>>

GroupWordsIntoChunks ==
    /\ pc = "group"
    /\ subtitle_chunks' = GroupWords(word_timings, max_words, max_duration)
    /\ pc' = "done"
    /\ UNCHANGED <<clip_start, word_timings, max_words, max_duration, video_vars>>
    /\ UNCHANGED <<text_vars, audio_vars, merge_vars>>

NextSubtitles == GetWordLevelTimings \/ GroupWordsIntoChunks

SpecSubtitles == InitSubtitles /\ [][NextSubtitles]_vars

\* C3: every chunk made from a transcript that satisfies the data model has
\* start >= 0 and end strictly greater than start.
C3_ChunksPositive ==
    pc = "done" =>
        \A c \in 1 .. Len(subtitle_chunks) :
            /\ subtitle_chunks[c].start >= 0
            /\ subtitle_chunks[c].end > subtitle_chunks[c].start

\* ------------------------------------------------------------------------
\* Chunk specification: group_words_into_chunks on every list of up to
\* MaxChunkWords word timings with end >= start and non-decreasing starts
\* (words may overlap), for max_words in MaxWordsChoices and max_duration in
\* MaxDurationChoices. The word at position i carries the i-th of WordTexts.
\* ------------------------------------------------------------------------
MaxChunkWords == 4

WordTexts ==
    << Gila, <<"a", "n", "j", "i", "r">>, <<"m", "a", "n", "t", "a", "p">>,
       <<"b", "r", "o">>, <<"w", "o", "w">>, <<"g", "g">> >>

TextAt(i) == WordTexts[((i - 1) % Len(WordTexts)) + 1]

TimingStarts == {0, 1, 2, 3}
TimingLens == {0, 1, 3}

RECURSIVE OrderedTimings(_)
\* The lists of at most k word timings with non-decreasing starts.
OrderedTimings(k) ==
    IF k = 0 THEN {<<>>}
    ELSE LET shorter == OrderedTimings(k - 1)
         IN  shorter \cup UNION {
                 { Append(ws, [start |-> s * Scale, end |-> (s + d) * Scale,
                               text |-> TextAt(Len(ws) + 1)]) :
                     s \in { x \in TimingStarts :
                                ws = <<>> \/ ws[Len(ws)].start <= x * Scale },
                     d \in TimingLens } :
                 ws \in shorter }

MaxWordsChoices == {1, 2, 3}
MaxDurationChoices == { Scale, DefaultMaxDuration }

\* Scenario E: gila [0.0,0.4], anjir [0.4,0.7], mantap [0.7,1.0], bro [1.0,1.3].
ScenarioE ==
    << [start |-> 0, end |-> (2 * Scale) \div 5, text |-> TextAt(1)],
       [start |-> (2 * Scale) \div 5, end |-> (7 * Scale) \div 10, text |-> TextAt(2)],
       [start |-> (7 * Scale) \div 10, end |-> Scale, text |-> TextAt(3)],
       [start |-> Scale, end |-> (13 * Scale) \div 10, text |-> TextAt(4)] >>

\* A word whose text holds a space inside ("double kill"), as strip() leaves it.
DoubleKill == EXCITEMENT_KEYWORDS[12]

\* One or two words in a row, one second each, any of them possibly spaced.
SpacedTimings ==
    { <<[start |-> 0, end |-> Scale, text |-> t]>> : t \in {Gila, DoubleKill} }
    \cup
    { <<[start |-> 0, end |-> Scale, text |-> t1],
        [start |-> Scale, end |-> 2 * Scale, text |-> t2]>> :
        t1 \in {Gila, DoubleKill}, t2 \in {Gila, DoubleKill} }

InitChunks ==
    /\ pc = "group"
    /\ word_timings \in OrderedTimings(MaxChunkWords) \cup {ScenarioE} \cup SpacedTimings
    /\ max_words \in MaxWordsChoices
    /\ max_duration \in MaxDurationChoices
    /\ clip_start = 0
    /\ NoVideo
    /\ subtitle_chunks = <<>>
    /\ NoText
    /\ NoAudio
    /\ NoMerge

NextChunks == GroupWordsIntoChunks

SpecChunks == InitChunks /\ [][NextChunks]_vars

\* The word timing is by itself longer than max_duration.
Overlong(w) == w.end - w.start > max_duration

\* C4: every chunk has at most max_words words and spans at most
\* max_duration unless it is a one-word chunk; a word that is by itself
\* longer than max_duration is not dropped and forms a one-word chunk.
C4_ChunkBounds ==
    pc = "done" =>
        /\ \A c \in 1 .. Len(subtitle_chunks) :
              /\ Len(subtitle_chunks[c].words) <= max_words
              /\ \/ subtitle_chunks[c].end - subtitle_chunks[c].start <= max_duration
                 \/ Len(subtitle_chunks[c].words) = 1
        /\ \A i \in 1 .. Len(word_timings) :
              Overlong(word_timings[i]) =>
                  \E c \in 1 .. Len(subtitle_chunks) :
                      subtitle_chunks[c].words = <<word_timings[i].text>>

\* What holds of the code: the bounds of C4, and an overlong word opens a
\* chunk (so it is not dropped) in which it is alone unless a later word ends
\* less than max_duration after the overlong word starts.
ChunkBoundsHeld ==
    pc = "done" =>
        /\ \A c \in 1 .. Len(subtitle_chunks) :
              /\ Len(subtitle_chunks[c].words) <= max_words
              /\ \/ subtitle_chunks[c].end - subtitle_chunks[c].start <= max_duration
                 \/ Len(subtitle_chunks[c].words) = 1
        /\ \A i \in 1 .. Len(word_timings) :
              Overlong(word_timings[i]) =>
                  \E c \in 1 .. Len(subtitle_chunks) :
                      /\ subtitle_chunks[c].words[1] = word_timings[i].text
                      /\ subtitle_chunks[c].start = word_timings[i].start
                      /\ (\/ i = Len(word_timings)
                          \/ max_words = 1
                          \/ word_timings[i + 1].end - word_timings[i].start
                                >= max_duration)
                            => Len(subtitle_chunks[c].words) = 1

\* ------------------------------------------------------------------------
\* Window specification: the winning moment is any interval 0 <= start <= end
\* on the half-second grid, from moments at time 0 to moments longer than
\* MAX_CLIP_DURATION.
\* ------------------------------------------------------------------------
MaxMomentStart == 12
MaxMomentLen == 62
HalfSecond == Scale \div 2

WinningMoments ==
    { [start |-> s * HalfSecond, end |-> (s + d) * HalfSecond, score |-> 2 * ScoreScale,
       type |-> <<"keyword">>, text |-> <<"w", "o", "w">>,
       details |-> <<"Keywords: wow">>] :
        s \in (0 .. 2 * MaxMomentStart) \cup {200, 201},
        d \in 0 .. 2 * MaxMomentLen }

InitWindow ==
    /\ pc = "window"
    /\ best_moment \in { <<m>> : m \in WinningMoments }
    /\ clip = <<>>
    /\ all_moments = <<>>
    /\ merged_moments = <<>>
    /\ remerged_moments = <<>>
    /\ NoText
    /\ NoAudio
    /\ NoChunks
    /\ NoVideo

ResolveWindow ==
    /\ pc = "window"
    /\ clip' = <<ClipWindow(best_moment[1])>>
    /\ pc' = "done"
    /\ UNCHANGED <<all_moments, merged_moments, remerged_moments, best_moment>>
    /\ UNCHANGED <<text_vars, audio_vars, chunk_vars>>

NextWindow == ResolveWindow

SpecWindow == InitWindow /\ [][NextWindow]_vars

\* ------------------------------------------------------------------------
\* Merge specification: detect_best_moment from line 301 on, for every list of
\* up to MaxMoments moments drawn from MomentPool (a keyword moment scores 4
\* and carries text, a volume moment scores 3 and has none).
\* ------------------------------------------------------------------------
MaxMoments == 3

MomentStarts == {10, 12, 13, 14, 15, 18}
MomentLens == {0, 2}

KeywordMoment(s, e) ==
    [start |-> s * Scale, end |-> e * Scale, score |-> 4 * ScoreScale,
     type |-> <<"keyword">>, text |-> <<"w", "o", "w">>,
     details |-> <<"Keywords: wow">>]

VolumeMoment(s, e) ==
    [start |-> s * Scale, end |-> e * Scale, score |-> 3 * ScoreScale,
     type |-> <<"volume_spike">>, text |-> <<>>,
     details |-> <<"Peak volume: 1.00">>]

MomentPool ==
    { KeywordMoment(s, s + d) : s \in MomentStarts, d \in MomentLens }
        \cup { VolumeMoment(s, s + d) : s \in MomentStarts, d \in MomentLens }

MomentLists == UNION { [1 .. n -> MomentPool] : n \in 1 .. MaxMoments }

InitMerge ==
    /\ pc = "merge"
    /\ all_moments \in MomentLists
    /\ merged_moments = <<>>
    /\ remerged_moments = <<>>
    /\ best_moment = <<>>
    /\ clip = <<>>
    /\ NoText
    /\ NoAudio
    /\ NoChunks
    /\ NoVideo

\* Lines 301-323: sort in place, fold, final append.
MergeMoments ==
    /\ pc = "merge"
    /\ all_moments' = SortByStart(all_moments)
    /\ merged_moments' = MergeSorted(all_moments')
    /\ pc' = "merged"
    /\ UNCHANGED <<remerged_moments, best_moment, clip>>
    /\ UNCHANGED <<text_vars, audio_vars, chunk_vars>>

\* The same merge step applied to its own output.
RemergeMoments ==
    /\ pc = "merged"
    /\ remerged_moments' = MergeSorted(SortByStart(merged_moments))
    /\ pc' = "remerged"
    /\ UNCHANGED <<all_moments, merged_moments, best_moment, clip>>
    /\ UNCHANGED <<text_vars, audio_vars, chunk_vars>>

\* Line 326.
SelectBest ==
    /\ pc = "merged"
    /\ best_moment' = <<BestOf(merged_moments)>>
    /\ pc' = "window"
    /\ UNCHANGED <<all_moments, merged_moments, remerged_moments, clip>>
    /\ UNCHANGED <<text_vars, audio_vars, chunk_vars>>

NextMerge == MergeMoments \/ RemergeMoments \/ SelectBest \/ ResolveWindow

SpecMerge == InitMerge /\ [][NextMerge]_vars

\* ------------------------------------------------------------------------
\* Properties of the merge step
\* ------------------------------------------------------------------------
RECURSIVE SumScores(_)
SumScores(moments) ==
    IF moments = <<>> THEN 0 ELSE Head(moments).score + SumScores(Tail(moments))

\* The merged moment that the sorted input moment i was folded into: the last
\* merged moment that starts no later than it.
GroupOf(i) ==
    SetMax({ k \in 1 .. Len(merged_moments) :
                merged_moments[k].start <= all_moments[i].start })

Members(k) == { i \in 1 .. Len(all_moments) : GroupOf(i) = k }

RECURSIVE SumOver(_)
SumOver(indices) ==
    IF indices = {} THEN 0
    ELSE LET i == SetMin(indices)
         IN  all_moments[i].score + SumOver(indices \ {i})

Merged == pc \in {"merged", "remerged", "window", "done"}

\* C5: the merge step applied to its own output returns that output
\* unchanged (same length, same start, end and score for each moment).
C5_MergeIdempotent ==
    pc = "remerged" =>
        /\ Len(remerged_moments) = Len(merged_moments)
        /\ \A k \in 1 .. Len(merged_moments) :
              /\ remerged_moments[k].start = merged_moments[k].start
              /\ remerged_moments[k].end = merged_moments[k].end
              /\ remerged_moments[k].score = merged_moments[k].score

\* A re-merge of an output that holds several moments, one of them a fold of
\* two or more inputs.
C5_Witness ==
    /\ pc = "remerged"
    /\ Len(merged_moments) >= 2
    /\ Len(all_moments) > Len(merged_moments)
    /\ remerged_moments = merged_moments

\* C6: each merged moment's score is the sum of the scores of the input
\* moments folded into it, and the merged scores add up to the input scores.
C6_ScoreConserved ==
    Merged =>
        /\ SumScores(merged_moments) = SumScores(all_moments)
        /\ \A k \in 1 .. Len(merged_moments) :
              merged_moments[k].score = SumOver(Members(k))

\* Three inputs folded into two merged moments.
C6_Witness ==
    /\ pc = "merged"
    /\ Len(all_moments) = 3
    /\ Len(merged_moments) = 2
    /\ \E k \in 1 .. 2 : Cardinality(Members(k)) = 2 /\ merged_moments[k].score = 7 * ScoreScale

\* C10: the next sorted moment joins the accumulator iff its start is at most
\* the accumulator's end (the largest end folded so far) plus 2 seconds; a
\* merged moment keeps the start of its first input and takes the largest
\* end; [10,12] score 4 and [13,15] score 3 give [10,15] score 7.
C10_MergeRule ==
    Merged =>
        /\ \A i \in 1 .. Len(all_moments) - 1 :
              (GroupOf(i) = GroupOf(i + 1)) <=>
                  (all_moments[i + 1].start <=
                      SetMax({ all_moments[j].end :
                                 j \in { x \in Members(GroupOf(i)) : x <= i } })
                          + 2 * Scale)
        /\ \A k \in 1 .. Len(merged_moments) :
              /\ merged_moments[k].start = all_moments[SetMin(Members(k))].start
              /\ merged_moments[k].end =
                    SetMax({ all_moments[j].end : j \in Members(k) })
        /\ (/\ Len(all_moments) = 2
            /\ all_moments[1] = KeywordMoment(10, 12)
            /\ all_moments[2] = VolumeMoment(13, 15))
              => /\ Len(merged_moments) = 1
                 /\ merged_moments[1].start = 10 * Scale
                 /\ merged_moments[1].end = 15 * Scale
                 /\ merged_moments[1].score = 7 * ScoreScale

\* A gap of exactly 2 seconds that merged, next to a larger gap that did not.
C10_Witness ==
    /\ pc = "merged"
    /\ Len(all_moments) = 3
    /\ all_moments[2].start = all_moments[1].end + 2 * Scale
    /\ all_moments[3].start > all_moments[2].end + 2 * Scale
    /\ Len(merged_moments) = 2
    /\ merged_moments[1].end = all_moments[2].end

\* C1: the returned window's duration lies in
\* [MIN_CLIP_DURATION, MAX_CLIP_DURATION] for every winning moment, also
\* when the window start is clamped to 0.
C1_DurationInBand ==
    pc = "done" =>
        /\ clip[1].duration >= MIN_CLIP_DURATION * Scale
        /\ clip[1].duration <= MAX_CLIP_DURATION * Scale

\* C2: the returned window has start >= 0 and end > start, whichever branch
\* is taken.
C2_WindowNonNegative ==
    pc = "done" => clip[1].start >= 0 /\ clip[1].end > clip[1].start

\* A window whose min-duration branch was taken with the start clamped at 0.
C2_Witness ==
    /\ pc = "done"
    /\ BufferedDuration(best_moment[1]) < MIN_CLIP_DURATION * Scale
    /\ best_moment[1].start < BUFFER_BEFORE * Scale
    /\ clip[1].start = 0
    /\ clip[1].end > 0

\* ------------------------------------------------------------------------
\* Pipeline specification: handle_video from the call of detect_best_moment
\* on, for every transcript of at most MaxSegments segments (with or without
\* a keyword) and every raw curve of MaxRawFrames quiet or loud frames.
\* ------------------------------------------------------------------------
PipelineSegments ==
    { Segment(<<5, 7>>, <<"w", "o", "w">>), Segment(<<8, 8>>, <<"o", "k">>),
      Segment(<<0, 1>>, <<"G", "G", " ", "w", "o", "w">>) }

PipelineTranscripts == UNION { [1 .. n -> PipelineSegments] : n \in 0 .. MaxSegments }

PipelineCurves == [1 .. MaxRawFrames -> {0, 10}]

\* Line 285: clip_start = max(0, min(moment_info['start'], video_duration - 1)).
ClampStart(moment_info, duration) ==
    Max(0, Min(moment_info.start, duration - Scale))

\* Line 286: clip_end = max(clip_start + 1, min(moment_info['end'], video_duration)).
ClampEnd(start, moment_info, duration) ==
    Max(start + Scale, Min(moment_info.end, duration))

\* video.duration, in ticks.
VideoDurations == { 5 * Scale, 20 * Scale }

InitPipeline ==
    /\ pc = "detect"
    /\ transcription \in PipelineTranscripts
    /\ keyword_moments = <<>>
    /\ raw_rms \in PipelineCurves
    /\ times = <<>>
    /\ rms = <<>>
    /\ spike_indices = <<>>
    /\ spike_groups = <<>>
    /\ volume_moments = <<>>
    /\ NoMerge
    /\ NoChunks
    /\ video_duration \in VideoDurations
    /\ clip_end = 0

\* bot.py line 124: the call of detect_best_moment (lines 244-362), from the
\* filtered transcription and the rms curve on. clip holds moment_info.
DetectBestMoment ==
    /\ pc = "detect"
    /\ \E sr \in SampleRates :
          times' = [i \in 1 .. Len(raw_rms) |-> frames_to_time(i - 1, sr)]
    /\ rms' = Normalize(raw_rms)
    /\ keyword_moments' = ExcitementMoments(transcription)
    /\ spike_indices' = SpikeIndices(rms')
    /\ spike_groups' = SpikeGroups(spike_indices')
    /\ volume_moments' = VolumeMoments(times', rms')
    /\ LET combined == Combine(keyword_moments', volume_moments')
       IN  IF Len(combined) = 0
           THEN /\ all_moments' = combined
                /\ merged_moments' = <<>>
                /\ best_moment' = <<>>
                /\ clip' = AbsentResult
           ELSE /\ all_moments' = SortByStart(combined)
                /\ merged_moments' = MergeSorted(all_moments')
                /\ best_moment' = <<BestOf(merged_moments')>>
                /\ clip' = <<ClipWindow(best_moment'[1])>>
    /\ pc' = "returned"
    /\ UNCHANGED <<transcription, raw_rms, remerged_moments, chunk_vars>>

\* bot.py lines 126-134: moment_info is None; the status message reports that
\* no moment was found, the files are removed and the handler returns.
HandleVideoNoMoment ==
    /\ pc = "returned"
    /\ clip = <<>>
    /\ pc' = "no_moment"
    /\ UNCHANGED <<text_vars, audio_vars, merge_vars, chunk_vars>>

\* bot.py lines 136-151 and create_clip_with_subtitles lines 283-306: the
\* clip start and end clamped into the video, the word timings and the chunks.
HandleVideoCreateClip ==
    /\ pc = "returned"
    /\ clip # <<>>
    /\ clip_start' = ClampStart(clip[1], video_duration)
    /\ clip_end' = ClampEnd(clip_start', clip[1], video_duration)
    /\ word_timings' = WordLevelTimings(transcription, clip_start')
    /\ subtitle_chunks' = GroupWords(word_timings', DEFAULT_MAX_WORDS, DefaultMaxDuration)
    /\ pc' = "create_clip"
    /\ UNCHANGED <<max_words, max_duration, video_duration>>
    /\ UNCHANGED <<text_vars, audio_vars, merge_vars>>

NextPipeline == DetectBestMoment \/ HandleVideoNoMoment \/ HandleVideoCreateClip

SpecPipeline == InitPipeline /\ [][NextPipeline]_vars

\* C11: a buffered window shorter than MIN_CLIP_DURATION is widened by
\* (MIN_CLIP_DURATION - duration) / 2 on each side, to exactly
\* MIN_CLIP_DURATION; the moment [100,101] gives start 96.5, end 106.5.
C11_SymmetricExpansion ==
    (pc = "done" /\ BufferedDuration(best_moment[1]) < MIN_CLIP_DURATION * Scale) =>
        LET m == best_moment[1]
            needed == MIN_CLIP_DURATION * Scale - BufferedDuration(m)
        IN  /\ 2 * (BufferedStart(m) - clip[1].start) = needed
            /\ 2 * (clip[1].end - BufferedEnd(m)) = needed
            /\ clip[1].end - clip[1].start = MIN_CLIP_DURATION * Scale
            /\ (m.start = 100 * Scale /\ m.end = 101 * Scale)
                  => /\ 2 * clip[1].start = 193 * Scale
                     /\ 2 * clip[1].end = 213 * Scale

\* C16: a buffered window longer than MAX_CLIP_DURATION is replaced by one of
\* exactly MAX_CLIP_DURATION that starts at max(0, mid - MAX_CLIP_DURATION/2),
\* mid being the moment's midpoint; mid lies inside it and the min-duration
\* expansion is not applied.
C16_CenteredOnMidpoint ==
    (pc = "done" /\ BufferedDuration(best_moment[1]) > MAX_CLIP_DURATION * Scale) =>
        LET m == best_moment[1]
            twice_mid == m.start + m.end
        IN  /\ 2 * clip[1].start = Max(0, twice_mid - MAX_CLIP_DURATION * Scale)
            /\ clip[1].end = clip[1].start + MAX_CLIP_DURATION * Scale
            /\ clip[1].duration = MAX_CLIP_DURATION * Scale
            /\ 2 * clip[1].start <= twice_mid
            /\ twice_mid <= 2 * clip[1].end

\* A long moment away from time 0: the window is re-centered, so it starts
\* later than the buffered window did.
C16_Witness ==
    /\ pc = "done"
    /\ BufferedDuration(best_moment[1]) > MAX_CLIP_DURATION * Scale
    /\ clip[1].start > BufferedStart(best_moment[1])
    /\ clip[1].start > 0
    /\ clip[1].end < BufferedEnd(best_moment[1])

\* C15: the winning moment is a merged moment of maximum score, and among
\* merged moments sharing that score it is the first of the start-sorted list,
\* the one with the earliest start.
C15_BestIsFirstMaximum ==
    pc \in {"window", "done"} =>
        \E i \in 1 .. Len(merged_moments) :
            /\ best_moment[1] = merged_moments[i]
            /\ \A j \in 1 .. Len(merged_moments) :
                   /\ merged_moments[j].score <= merged_moments[i].score
                   /\ (merged_moments[j].score = merged_moments[i].score /\ j # i)
                        => /\ i < j
                           /\ merged_moments[i].start < merged_moments[j].start

\* Two merged moments tie for the maximum score and a lower-scored one lies
\* between or beside them.
C15_Witness ==
    /\ pc = "window"
    /\ \E i, j \in 1 .. Len(merged_moments) :
           /\ i < j
           /\ merged_moments[i].score = merged_moments[j].score
           /\ best_moment[1] = merged_moments[i]
    /\ \E k \in 1 .. Len(merged_moments) :
           merged_moments[k].score < best_moment[1].score

\* The number of words in the chunks before chunk c.
RECURSIVE ChunkOffset(_, _)
ChunkOffset(chunks, c) ==
    IF c = 1 THEN 0 ELSE ChunkOffset(chunks, c - 1) + Len(chunks[c - 1].words)

\* The chunks partition the word list in order: chunk c holds the words
\* ChunkOffset + 1 .. ChunkOffset + Len(words).
Partitioned(chunks, words) ==
    /\ \A c \in 1 .. Len(chunks) : Len(chunks[c].words) >= 1
    /\ ChunkOffset(chunks, Len(chunks) + 1) = Len(words)
    /\ \A c \in 1 .. Len(chunks) : \A k \in 1 .. Len(chunks[c].words) :
           chunks[c].words[k] = words[ChunkOffset(chunks, c) + k].text

\* C12: a word joins the open chunk if and only if the chunk holds fewer than
\* max_words words and word.end - chunk.start < max_duration; otherwise the
\* chunk is closed with span [chunk.start, end of its last word] and text its
\* words joined by single spaces, and the word opens a new chunk. Scenario E
\* with max_words 3 gives 'gila anjir mantap'@[0.0,1.0], 'bro'@[1.0,1.3].
C12_GreedyRule ==
    pc = "done" =>
        /\ Partitioned(subtitle_chunks, word_timings)
        /\ \A c \in 1 .. Len(subtitle_chunks) :
              LET chunk == subtitle_chunks[c]
                  off == ChunkOffset(subtitle_chunks, c)
                  n == Len(chunk.words)
              IN  /\ chunk.start = word_timings[off + 1].start
                  /\ chunk.end = word_timings[off + n].end
                  /\ chunk.text = Join(chunk.words)
                  \* every word after the first joined a chunk that had room
                  /\ \A k \in 2 .. n :
                        /\ k - 1 < max_words
                        /\ word_timings[off + k].end - chunk.start < max_duration
                  \* the word that follows the chunk did not fit
                  /\ c < Len(subtitle_chunks) =>
                        \/ n >= max_words
                        \/ word_timings[off + n + 1].end - chunk.start >= max_duration
        /\ (word_timings = ScenarioE /\ max_words = 3 /\ max_duration = DefaultMaxDuration)
              => /\ Len(subtitle_chunks) = 2
                 /\ subtitle_chunks[1].text = Join(<<TextAt(1), TextAt(2), TextAt(3)>>)
                 /\ subtitle_chunks[1].start = 0
                 /\ subtitle_chunks[1].end = Scale
                 /\ subtitle_chunks[2].text = TextAt(4)
                 /\ subtitle_chunks[2].start = Scale
                 /\ 10 * subtitle_chunks[2].end = 13 * Scale

\* Scenario E has been chunked with the default limits.
C12_Witness ==
    /\ pc = "done"
    /\ word_timings = ScenarioE
    /\ max_words = 3
    /\ max_duration = DefaultMaxDuration
    /\ Len(subtitle_chunks) = 2

\* text.split(' '): the pieces between single spaces, empty pieces included.
RECURSIVE SplitOnSpaceFrom(_, _, _)
SplitOnSpaceFrom(text, piece, pieces) ==
    IF text = <<>> THEN Append(pieces, piece)
    ELSE IF Head(text) = " "
         THEN SplitOnSpaceFrom(Tail(text), <<>>, Append(pieces, piece))
         ELSE SplitOnSpaceFrom(Tail(text), Append(piece, Head(text)), pieces)

SplitOnSpace(text) == SplitOnSpaceFrom(text, <<>>, <<>>)

\* The chunk texts split on single spaces, concatenated in chunk order.
RECURSIVE ChunkPieces(_)
ChunkPieces(chunks) ==
    IF chunks = <<>> THEN <<>>
    ELSE SplitOnSpace(Head(chunks).text) \o ChunkPieces(Tail(chunks))

TextsOf(words) == [i \in 1 .. Len(words) |-> words[i].text]

HasSpace(text) == \E i \in 1 .. Len(text) : text[i] = " "

\* No word is dropped, duplicated or reordered, as read back from the chunk
\* texts; chunk spans run from first word start to last word end; the result
\* is empty exactly when the input is.
RoundTrip ==
    /\ ChunkPieces(subtitle_chunks) = TextsOf(word_timings)
    /\ Partitioned(subtitle_chunks, word_timings)
    /\ \A c \in 1 .. Len(subtitle_chunks) :
          LET off == ChunkOffset(subtitle_chunks, c)
          IN  /\ subtitle_chunks[c].start = word_timings[off + 1].start
              /\ subtitle_chunks[c].end =
                    word_timings[off + Len(subtitle_chunks[c].words)].end
    /\ (subtitle_chunks = <<>>) <=> (word_timings = <<>>)

\* C20, as stated: for every input word list, splitting each chunk's text on
\* single spaces and concatenating over the chunks gives the input word texts
\* in input order; chunk start/end are first word start / last word end; the
\* result is empty iff the input is empty.
C20_RoundTripAnyWords ==
    pc = "done" => RoundTrip

\* C20, amended: the same for every input word list whose word texts hold no
\* space character.
C20_RoundTripUnspacedWords ==
    (pc = "done" /\ \A i \in 1 .. Len(word_timings) : ~HasSpace(word_timings[i].text))
        => RoundTrip

\* Several unspaced words went into more than one chunk, one of them holding
\* more than one word.
C20_Witness ==
    /\ pc = "done"
    /\ \A i \in 1 .. Len(word_timings) : ~HasSpace(word_timings[i].text)
    /\ Len(subtitle_chunks) >= 2
    /\ \E c \in 1 .. Len(subtitle_chunks) : Len(subtitle_chunks[c].words) >= 2

\* The transcript satisfies the data model (0 <= start <= end for segments,
\* start <= end for words) and is ordered: segment starts and, inside a
\* segment, word starts never decrease.
OrderedTranscript(segments) ==
    /\ \A i \in 1 .. Len(segments) :
          /\ 0 <= segments[i].start
          /\ segments[i].start <= segments[i].end
          /\ \A k \in 1 .. Len(segments[i].words) :
                segments[i].words[k].start <= segments[i].words[k].end
          /\ \A k \in 1 .. Len(segments[i].words) - 1 :
                segments[i].words[k].start <= segments[i].words[k + 1].start
    /\ \A i \in 1 .. Len(segments) - 1 : segments[i].start <= segments[i + 1].start

\* Neither two segments nor two words of a segment overlap in time, and a
\* segment's words lie inside its span.
NoOverlap(segments) ==
    /\ \A i \in 1 .. Len(segments) - 1 : segments[i].end <= segments[i + 1].start
    /\ \A i \in 1 .. Len(segments) :
          \A k \in 1 .. Len(segments[i].words) :
              /\ segments[i].start <= segments[i].words[k].start
              /\ segments[i].words[k].end <= segments[i].end
    /\ \A i \in 1 .. Len(segments) :
          \A k \in 1 .. Len(segments[i].words) - 1 :
              segments[i].words[k].end <= segments[i].words[k + 1].start

ChunksInOrder ==
    \A c \in 1 .. Len(subtitle_chunks) - 1 :
        /\ subtitle_chunks[c].start <= subtitle_chunks[c + 1].start
        /\ subtitle_chunks[c].end <= subtitle_chunks[c + 1].start

\* C17: for every ordered transcript that satisfies the data model and every
\* clip start, consecutive chunks are ordered and do not overlap: the earlier
\* chunk's start and end are both <= the later chunk's start.
C17_ChunksOrdered ==
    (pc = "done" /\ OrderedTranscript(transcription)) => ChunksInOrder

\* What holds of the code: the chunks are in order and disjoint when the
\* transcript's own segments and words are.
ChunksOrderedHeld ==
    (pc = "done" /\ OrderedTranscript(transcription) /\ NoOverlap(transcription))
        => ChunksInOrder

\* A segment's words before the clip start is applied: its word infos with
\* non-blank text when it carries any, else its whitespace-split text spread
\* evenly over its span.
SegmentCandidates(segment) ==
    IF segment.words # <<>>
    THEN SelectSeq([k \in 1 .. Len(segment.words) |->
                        [start |-> segment.words[k].start,
                         end |-> segment.words[k].end,
                         text |-> Strip(segment.words[k].word)]],
                   LAMBDA w : w.text # <<>>)
    ELSE LET tokens == Split(segment.text)
             n == Len(tokens)
         IN  [i \in 1 .. n |->
                 [start |-> segment.start + ((i - 1) * (segment.end - segment.start)) \div n,
                  end |-> segment.start + (i * (segment.end - segment.start)) \div n,
                  text |-> tokens[i]]]

RECURSIVE Candidates(_)
Candidates(segments) ==
    IF segments = <<>> THEN <<>>
    ELSE SegmentCandidates(Head(segments)) \o Candidates(Tail(segments))

Rebased(words, start) ==
    [i \in 1 .. Len(words) |->
        [start |-> words[i].start - start, end |-> words[i].end - start,
         text |-> words[i].text]]

\* C19: explicit word timings are used whenever a segment's word list is
\* non-empty, the even split of its span over its whitespace-split words
\* otherwise; a word with non-empty text is output iff word.start - clip_start
\* >= 0, with start and end shifted by exactly clip_start (a word beginning
\* before the clip start is dropped even if it ends inside the clip), in
\* transcript order.
C19_WordTimings ==
    pc \in {"group", "done"} =>
        word_timings =
            Rebased(SelectSeq(Candidates(transcription),
                              LAMBDA w : w.start - clip_start >= 0),
                    clip_start)

\* A segment with word timings, one of which begins before the clip start and
\* ends after it while a later one is kept, followed by a segment without
\* word timings whose text is split evenly.
C19_Witness ==
    /\ pc = "group"
    /\ Len(transcription) = 2
    /\ \E k \in 1 .. Len(transcription[1].words) :
          /\ transcription[1].words[k].start < clip_start
          /\ transcription[1].words[k].end > clip_start
    /\ \E k \in 1 .. Len(transcription[1].words) :
          transcription[1].words[k].start >= clip_start
    /\ Len(Split(transcription[2].text)) >= 2
    /\ Len(word_timings) >= 3

\* Every raw level is zero.
Silent(levels) == \A i \in 1 .. Len(levels) : levels[i] = 0

WellDefined(levels) ==
    \A i \in 1 .. Len(levels) : ~IsNaN(levels[i]) /\ levels[i] >= 0

\* C18: the normalisation never divides by zero: for silence the curve handed
\* to find_volume_spikes holds only well-defined non-negative levels,
\* otherwise its maximum is exactly 1.0.
C18_NormalizedCurve ==
    pc \in {"spikes", "done"} =>
        /\ WellDefined(rms)
        /\ ~Silent(raw_rms) => SetMax({ rms[i] : i \in 1 .. Len(rms) }) = LevelScale

\* What holds of the code: a curve that is not silent is normalised to
\* well-defined levels with maximum 1.0, and the silent curve, though not a
\* number anywhere, gives no spike and no moment.
NormalizedCurveHeld ==
    /\ (pc \in {"spikes", "done"} /\ ~Silent(raw_rms)) =>
          /\ WellDefined(rms)
          /\ SetMax({ rms[i] : i \in 1 .. Len(rms) }) = LevelScale
    /\ (pc = "done" /\ Silent(raw_rms)) =>
          /\ spike_indices = <<>>
          /\ volume_moments = <<>>

\* detect_best_moment has returned to handle_video.
Returned == pc \in {"returned", "no_moment", "create_clip"}

\* C13: when the keyword spotter and the spike detector both return no
\* moments, detect_best_moment returns None without computing a clip window,
\* and handle_video reports 'no moment' and never calls
\* create_clip_with_subtitles.
C13_NoMomentsNoClip ==
    /\ [](  (Returned /\ keyword_moments = <<>> /\ volume_moments = <<>>)
            => /\ clip = <<>>
               /\ best_moment = <<>>
               /\ merged_moments = <<>>
               /\ pc # "create_clip"
               /\ subtitle_chunks = <<>>)
    /\ [][ (pc = "returned" /\ keyword_moments = <<>> /\ volume_moments = <<>>)
             => pc' = "no_moment" ]_vars

\* handle_video has reported 'no moment' for a video with speech (no keyword
\* in it) and sound (no frame above the threshold).
C13_Witness ==
    /\ pc = "no_moment"
    /\ transcription # <<>>
    /\ \E i \in 1 .. Len(raw_rms) : raw_rms[i] > 0
    /\ keyword_moments = <<>>
    /\ volume_moments = <<>>

\* ------------------------------------------------------------------------
\* Malformed-input specification: the pipeline on every transcript of at most
\* MaxSegments segments of which at least one has end < start.
\* ------------------------------------------------------------------------
MalformedSegments ==
    { Segment(<<7, 5>>, <<"w", "o", "w">>), Segment(<<3, 1>>, <<"o", "k">>) }

Malformed(segments) ==
    \E i \in 1 .. Len(segments) : segments[i].end < segments[i].start

MalformedTranscripts ==
    { t \in UNION { [1 .. n -> PipelineSegments \cup MalformedSegments] :
                       n \in 1 .. MaxSegments } : Malformed(t) }

InitMalformed ==
    /\ pc = "detect"
    /\ transcription \in MalformedTranscripts
    /\ keyword_moments = <<>>
    /\ raw_rms \in PipelineCurves
    /\ times = <<>>
    /\ rms = <<>>
    /\ spike_indices = <<>>
    /\ spike_groups = <<>>
    /\ volume_moments = <<>>
    /\ NoMerge
    /\ NoChunks
    /\ video_duration \in VideoDurations
    /\ clip_end = 0

SpecMalformed == InitMalformed /\ [][NextPipeline]_vars

MalformedCarriedThrough ==
    /\ pc = "create_clip"
    /\ Malformed(transcription)
    /\ best_moment[1].end < best_moment[1].start
    /\ clip # <<>>
    /\ \E c \in 1 .. Len(subtitle_chunks) :
          subtitle_chunks[c].end < subtitle_chunks[c].start

\* The input moments whose interval lies inside merged moment k.
ContainedIn(k) ==
    { i \in 1 .. Len(all_moments) :
        /\ merged_moments[k].start <= all_moments[i].start
        /\ all_moments[i].end <= merged_moments[k].end }

\* C21: after the merge fold of a non-empty list of moments with end >= start,
\* the merged list has strictly increasing starts, consecutive merged moments
\* satisfy later.start > earlier.end + 2, every input interval is contained in
\* exactly one merged moment, and each merged moment's start and end are the
\* minimum start and the maximum end of the inputs folded into it.
C21_MergedPartition ==
    (Merged /\ \A i \in 1 .. Len(all_moments) : all_moments[i].start <= all_moments[i].end) =>
        /\ Len(merged_moments) >= 1
        /\ \A k \in 1 .. Len(merged_moments) - 1 :
              /\ merged_moments[k].start < merged_moments[k + 1].start
              /\ merged_moments[k + 1].start > merged_moments[k].end + 2 * Scale
        /\ \A i \in 1 .. Len(all_moments) :
              Cardinality({ k \in 1 .. Len(merged_moments) : i \in ContainedIn(k) }) = 1
        /\ \A k \in 1 .. Len(merged_moments) :
              /\ ContainedIn(k) # {}
              /\ merged_moments[k].start =
                    SetMin({ all_moments[i].start : i \in ContainedIn(k) })
              /\ merged_moments[k].end =
                    SetMax({ all_moments[i].end : i \in ContainedIn(k) })

\* Two merged moments, one of them folded from inputs of which an earlier one
\* ends later than the one folded in after it.
C21_Witness ==
    /\ pc = "merged"
    /\ Len(merged_moments) = 2
    /\ \E k \in 1 .. 2 : \E i, j \in ContainedIn(k) :
          /\ i < j
          /\ all_moments[i].end > all_moments[j].end
          /\ merged_moments[k].end = all_moments[i].end

\* ------------------------------------------------------------------------
\* Clamp specification: create_clip_with_subtitles on every window that
\* detect_best_moment resolves from a moment of ClampMoments, for videos from
\* half a second to longer than any window, and a short transcript.
\* ------------------------------------------------------------------------
MaxClampStart == 8

ClampMoments ==
    { m \in WinningMoments :
        /\ m.start \in { s * HalfSecond : s \in (0 .. MaxClampStart) \cup {200} }
        /\ m.end - m.start \in { 0, Scale, MaxMomentLen * Scale } }

ClampDurations ==
    { HalfSecond, Scale, 3 * HalfSecond, 5 * Scale, 12 * Scale, 200 * Scale }

ClampTranscripts == UNION { [1 .. n -> PipelineSegments] : n \in 0 .. 1 }

InitClamp ==
    /\ pc = "returned"
    /\ \E m \in ClampMoments :
          /\ all_moments = <<m>>
          /\ merged_moments = <<m>>
          /\ best_moment = <<m>>
          /\ clip = <<ClipWindow(m)>>
    /\ remerged_moments = <<>>
    /\ transcription \in ClampTranscripts
    /\ keyword_moments = <<>>
    /\ video_duration \in ClampDurations
    /\ clip_end = 0
    /\ NoChunks
    /\ NoAudio

NextClamp == HandleVideoCreateClip

SpecClamp == InitClamp /\ [][NextClamp]_vars

\* The window handed over is one the engine produces: start >= 0, end > start.
EngineWindow == clip # <<>> /\ clip[1].start >= 0 /\ clip[1].end > clip[1].start

\* The word timings are those of the transcript re-based to clip_start.
RebasedToClipStart ==
    word_timings =
        Rebased(SelectSeq(Candidates(transcription),
                          LAMBDA w : w.start - clip_start >= 0),
                clip_start)

\* C22: for every clip window produced by the engine (start >= 0, end > start,
\* end possibly beyond the media) and every video duration > 0, the clamping
\* yields 0 <= clip_start < clip_end <= video_duration, and the subtitle word
\* timings are re-based to that clamped clip_start.
C22_ClampedIntoVideo ==
    (pc = "create_clip" /\ EngineWindow /\ video_duration > 0) =>
        /\ 0 <= clip_start
        /\ clip_start < clip_end
        /\ clip_end <= video_duration
        /\ RebasedToClipStart

\* What holds of the code: the same for every video of at least one second.
ClampedIntoVideoHeld ==
    (pc = "create_clip" /\ EngineWindow /\ video_duration >= Scale) =>
        /\ 0 <= clip_start
        /\ clip_start < clip_end
        /\ clip_end <= video_duration
        /\ clip_start = Min(clip[1].start, Max(0, video_duration - Scale))
        /\ RebasedToClipStart

====
